---- MODULE Spec2Model ----
(***************************************************************************)
(* Model of src/shadowbox/server/shared_metrics.ts: the shared metrics     *)
(* publisher (OutlineSharedMetricsPublisher), its Prometheus-backed usage  *)
(* source (PrometheusUsageMetrics) and the outcome of the collector calls  *)
(* (RestMetricsCollectorClient).                                           *)
(*                                                                         *)
(* Time is counted in whole clock units; one unit of traffic is one byte   *)
(* of one Prometheus series during one clock unit.  The two timers are     *)
(* registered with Clock.setInterval, which does not wait for the promise  *)
(* an async callback returns: a callback may fire while an earlier one of  *)
(* the same timer is suspended at an await, so every tick has its own      *)
(* position (pc).                                                          *)
(***************************************************************************)
EXTENDS Integers, Sequences, FiniteSets, TLC

VARIABLES
  now,                     \* the wall clock (Clock.now() and Date.now())
  traffic,                 \* traffic[k]: the series that moved one byte in [k-1, k), or "none"
  serverConfig,            \* serverConfig.data(): metricsEnabled, accessKeyDataLimit
  configFile,              \* what serverConfig.write() last persisted
  resetTimeMs,             \* PrometheusUsageMetrics.resetTimeMs
  reportStartTimestampMs,  \* OutlineSharedMetricsPublisher.reportStartTimestampMs
  hourly,                  \* hourly[i]: the i-th firing of the hourly callback
  daily,                   \* daily[j]: the j-th firing of the daily callback
  builtOrder,              \* the hourly ticks that built a report, in the order they built it
  snapshot,                \* input of the report construction checked on its own (SpecFilter)
  filtered,                \* its output
  post                     \* one postMetrics call checked on its own (SpecTransport)

vars == <<now, traffic, serverConfig, configFile, resetTimeMs, reportStartTimestampMs,
          hourly, daily, builtOrder, snapshot, filtered, post>>

-----------------------------------------------------------------------------
(* Bounds of the model *)

MaxTime == 2
MaxHourlyTicks == 3
MaxDailyTicks == 1
MaxSnapshotLen == 2

-----------------------------------------------------------------------------
(* Constants of the program *)

SANCTIONED_COUNTRIES == {"CU", "KP", "SY"}

\* The series of shadowsocks_data_bytes grouped by (location, access_key), in
\* the order Prometheus returns them.  The location label is modelled as its
\* comma-separated pieces, untrimmed.
PrometheusSeries ==
  << [access_key |-> "a", location |-> <<"US">>],
     [access_key |-> "b", location |-> <<" KP">>] >>

AccessKeys == {PrometheusSeries[i].access_key : i \in 1..Len(PrometheusSeries)}

\* The injected toMetricsId; it has no metrics id for key "c".
ToMetricsId(accessKeyId) ==
  CASE accessKeyId = "a" -> "m-a"
    [] accessKeyId = "b" -> "m-b"
    [] OTHER -> "undefined"

-----------------------------------------------------------------------------
(* PrometheusUsageMetrics *)

\* String.prototype.trim on one piece of the location label.
Trim(e) ==
  CASE e = " KP" -> "KP"
    [] e = "SY " -> "SY"
    [] OTHER -> e

\* sum(increase(shadowsocks_data_bytes[from, to))) of one series.
RECURSIVE Increase(_, _, _)
Increase(key, from, to) ==
  IF to <= from THEN 0
  ELSE Increase(key, from, to - 1) + (IF traffic[to] = key THEN 1 ELSE 0)

\* The answer of prometheusClient.query for the window of timeDelta ending now:
\* Prometheus evaluates the query when getUsage() sends it.  A clock unit is a
\* whole number of seconds, so the Math.round of timeDeltaSecs changes nothing;
\* every series is in the answer, with 0 when it moved nothing.
PrometheusQuery(timeDelta) ==
  [i \in 1..Len(PrometheusSeries) |->
     [metric |-> PrometheusSeries[i],
      value  |-> Increase(PrometheusSeries[i].access_key, now - timeDelta, now)]]

\* One KeyUsage from one entry of the query result (the byte counts of the
\* model are whole numbers, which Math.round(parseFloat(..)) leaves alone).
ToKeyUsage(entry) ==
  [accessKeyId  |-> entry.metric.access_key,
   countries    |-> [k \in 1..Len(entry.metric.location) |-> Trim(entry.metric.location[k])],
   inboundBytes |-> entry.value]

\* getUsage(): the usage since resetTimeMs.
GetUsage ==
  LET result == PrometheusQuery(now - resetTimeMs)
  IN  [i \in 1..Len(result) |-> ToKeyUsage(result[i])]

-----------------------------------------------------------------------------
(* OutlineSharedMetricsPublisher: the pure parts *)

\* An opt-out reading of the flag: enabled unless stopSharing was called.
IsSharingEnabledByDefault == serverConfig.metricsEnabled # "false"

IsSharingEnabled == serverConfig.metricsEnabled = "true"

\* The policy that skips an entry only when all of its countries are sanctioned.
AllCountriesSanctioned(countries) ==
  /\ Len(countries) > 0
  /\ \A k \in 1..Len(countries) : countries[k] \in SANCTIONED_COUNTRIES

\* A check that also suppresses an entry without any country.
NoCountryOrSanctioned(countries) ==
  \/ countries = <<>>
  \/ \E k \in 1..Len(countries) : countries[k] \in SANCTIONED_COUNTRIES

HasSanctionedCountry(countries) ==
  \E k \in 1..Len(countries) : countries[k] \in SANCTIONED_COUNTRIES

\* A zero test that lets zero through.
NegativeBytes(keyUsage) == keyUsage.inboundBytes < 0

\* The filter of the loop of reportServerUsageMetrics: TRUE when the entry is skipped.
ZeroBytes(keyUsage) == keyUsage.inboundBytes = 0

Skipped(keyUsage) == ZeroBytes(keyUsage) \/ HasSanctionedCountry(keyUsage.countries)

UserId(accessKeyId) ==
  IF ToMetricsId(accessKeyId) = "undefined" THEN "" ELSE ToMetricsId(accessKeyId)

ToUserReport(keyUsage) ==
  [userId           |-> UserId(keyUsage.accessKeyId),
   bytesTransferred |-> keyUsage.inboundBytes,
   countries        |-> keyUsage.countries]

\* The loop putting each entry in front of the ones pushed before it.
RECURSIVE BuildUserReportsReversed(_)
BuildUserReportsReversed(usageMetrics) ==
  IF usageMetrics = <<>> THEN <<>>
  ELSE LET keyUsage == Head(usageMetrics)
           rest     == BuildUserReportsReversed(Tail(usageMetrics))
       IN  IF Skipped(keyUsage) THEN rest ELSE rest \o <<ToUserReport(keyUsage)>>

\* The userReports the loop pushes, in the order of usageMetrics.
RECURSIVE BuildUserReports(_)
BuildUserReports(usageMetrics) ==
  IF usageMetrics = <<>> THEN <<>>
  ELSE LET keyUsage == Head(usageMetrics)
           rest     == BuildUserReports(Tail(usageMetrics))
       IN  IF Skipped(keyUsage) THEN rest ELSE <<ToUserReport(keyUsage)>> \o rest

\* The report with its two timestamps in each other's place.
MakeReportSwapped(start, end, userReports) ==
  [startUtcMs |-> end, endUtcMs |-> start, userReports |-> userReports]

MakeReport(start, end, userReports) ==
  [startUtcMs |-> start, endUtcMs |-> end, userReports |-> userReports]

\* The cursor left where it was.
StaleCursor(report) == report.startUtcMs

\* The value reportStartTimestampMs takes once a report is built.
AdvancedCursor(report) == report.endUtcMs

\* Every built report goes to the collector.
AlwaysDeliver(userReports) == TRUE

\* The test that lets a built report go to the collector.
ShouldDeliver(userReports) == Len(userReports) # 0

NoReport == MakeReport(-1, -1, <<>>)

-----------------------------------------------------------------------------
(* Initial state: right after both constructors ran *)

IdleHourly ==
  [pc |-> "idle", usage |-> <<>>, report |-> NoReport, outcome |-> "none",
   nGetUsage |-> 0, nReset |-> 0, nCollect |-> 0, overlapped |-> FALSE]

NoFeatureReport == [timestampUtcMs |-> -1, dataLimitEnabled |-> FALSE]

IdleDaily ==
  [pc |-> "idle", report |-> NoFeatureReport,
   outcome |-> "none", nCollect |-> 0]

InitPublisher ==
  /\ now = 0
  /\ traffic = <<>>
  /\ serverConfig \in [metricsEnabled : {"undefined", "true", "false"},
                       accessKeyDataLimit : BOOLEAN]
  /\ configFile = serverConfig
  /\ resetTimeMs = now
  /\ reportStartTimestampMs = now
  /\ hourly = [i \in 1..MaxHourlyTicks |-> IdleHourly]
  /\ daily = [j \in 1..MaxDailyTicks |-> IdleDaily]
  /\ builtOrder = <<>>

NotBuilt == [built |-> FALSE, userReports |-> <<>>]

\* No postMetrics call made yet.
NoPost ==
  [urlPath |-> "", requestModule |-> "", requests |-> 0, promise |-> "none",
   responded |-> FALSE, statusCode |-> 0, errored |-> FALSE]

Init ==
  /\ InitPublisher
  /\ snapshot = <<>>
  /\ filtered = NotBuilt
  /\ post = NoPost

-----------------------------------------------------------------------------
(* The environment: the clock, the traffic, the configuration *)

AdvanceClock ==
  /\ now < MaxTime
  /\ \E ev \in AccessKeys \cup {"none"} : traffic' = Append(traffic, ev)
  /\ now' = now + 1
  /\ UNCHANGED <<serverConfig, configFile, resetTimeMs, reportStartTimestampMs,
                 hourly, daily, builtOrder, snapshot, filtered, post>>

SetAccessKeyDataLimit ==
  /\ serverConfig' = [serverConfig EXCEPT !.accessKeyDataLimit = ~@]
  /\ configFile' = serverConfig'
  /\ UNCHANGED <<now, traffic, resetTimeMs, reportStartTimestampMs,
                 hourly, daily, builtOrder, snapshot, filtered, post>>

-----------------------------------------------------------------------------
(* startSharing / stopSharing *)

StartSharing ==
  /\ serverConfig' = [serverConfig EXCEPT !.metricsEnabled = "true"]
  /\ configFile' = serverConfig'
  /\ UNCHANGED <<now, traffic, resetTimeMs, reportStartTimestampMs,
                 hourly, daily, builtOrder, snapshot, filtered, post>>

StopSharing ==
  /\ serverConfig' = [serverConfig EXCEPT !.metricsEnabled = "false"]
  /\ configFile' = serverConfig'
  /\ UNCHANGED <<now, traffic, resetTimeMs, reportStartTimestampMs,
                 hourly, daily, builtOrder, snapshot, filtered, post>>

-----------------------------------------------------------------------------
(* The hourly callback *)

\* clock.setInterval(callback, intervalMs): firing k of a timer comes after
\* firing k - 1 has begun.  The callback is async, and the timer does not wait
\* for the promise it returns.
SetInterval(ticks, k) == IF k = 1 THEN TRUE ELSE ticks[k - 1].pc # "idle"

\* The hourly ticks suspended at an await.
HourlyInFlight == {m \in 1..MaxHourlyTicks : hourly[m].pc \in {"awaitUsage", "awaitDelivery"}}

\* The callback fires: the opt-in check, then the call of getUsage() and its
\* await.  overlapped records that an earlier tick was still suspended then.
\* An hourly tick that moves the cursor to the present when sharing is off.
HourlyTickDisabledMovesCursor(i) ==
  /\ hourly[i].pc = "idle"
  /\ SetInterval(hourly, i)
  /\ IF ~IsSharingEnabled
       THEN /\ hourly' = [hourly EXCEPT ![i].pc = "done", ![i].outcome = "disabled"]
            /\ reportStartTimestampMs' = now
       ELSE /\ hourly' = [hourly EXCEPT ![i].pc = "awaitUsage",
                                        ![i].usage = GetUsage,
                                        ![i].nGetUsage = @ + 1,
                                        ![i].overlapped = HourlyInFlight # {}]
            /\ UNCHANGED reportStartTimestampMs
  /\ UNCHANGED <<now, traffic, serverConfig, configFile, resetTimeMs,
                 daily, builtOrder, snapshot, filtered, post>>

HourlyTick(i) ==
  /\ hourly[i].pc = "idle"
  /\ SetInterval(hourly, i)
  /\ IF ~IsSharingEnabled
       THEN hourly' = [hourly EXCEPT ![i].pc = "done", ![i].outcome = "disabled"]
       ELSE hourly' = [hourly EXCEPT ![i].pc = "awaitUsage",
                                     ![i].usage = GetUsage,
                                     ![i].nGetUsage = @ + 1,
                                     ![i].overlapped = HourlyInFlight # {}]
  /\ UNCHANGED <<now, traffic, serverConfig, configFile, resetTimeMs,
                 reportStartTimestampMs, daily, builtOrder, snapshot, filtered, post>>

\* getUsage() rejects and the tick asks again.
GetUsageRejectedRetry(i) ==
  /\ hourly[i].pc = "awaitUsage"
  /\ hourly[i].nGetUsage < 2
  /\ hourly' = [hourly EXCEPT ![i].usage = GetUsage, ![i].nGetUsage = @ + 1]
  /\ UNCHANGED <<now, traffic, serverConfig, configFile, resetTimeMs,
                 reportStartTimestampMs, daily, builtOrder, snapshot, filtered, post>>

\* getUsage() rejects: the catch logs it.
\* getUsage() rejects and the tick still moves the cursor and the baseline.
GetUsageRejectedAdvances(i) ==
  /\ hourly[i].pc = "awaitUsage"
  /\ hourly' = [hourly EXCEPT ![i].pc = "done", ![i].outcome = "usageRejected",
                              ![i].usage = <<>>]
  /\ reportStartTimestampMs' = now
  /\ resetTimeMs' = now
  /\ UNCHANGED <<now, traffic, serverConfig, configFile,
                 daily, builtOrder, snapshot, filtered, post>>

GetUsageRejected(i) ==
  /\ hourly[i].pc = "awaitUsage"
  /\ hourly' = [hourly EXCEPT ![i].pc = "done", ![i].outcome = "usageRejected",
                              ![i].usage = <<>>]
  /\ UNCHANGED <<now, traffic, serverConfig, configFile, resetTimeMs,
                 reportStartTimestampMs, daily, builtOrder, snapshot, filtered, post>>

\* getUsage() resolves: reportServerUsageMetrics runs up to its return or its
\* await; when it returns without a delivery, reset() follows.
GetUsageResolved(i) ==
  /\ hourly[i].pc = "awaitUsage"
  /\ LET userReports == BuildUserReports(hourly[i].usage)
         report == MakeReport(reportStartTimestampMs, now, userReports)
     IN  /\ reportStartTimestampMs' = AdvancedCursor(report)
         /\ builtOrder' = Append(builtOrder, i)
         /\ IF ShouldDeliver(userReports)
              THEN /\ hourly' = [hourly EXCEPT ![i].pc = "awaitDelivery",
                                               ![i].usage = <<>>,
                                               ![i].report = report,
                                               ![i].nCollect = @ + 1]
                   /\ UNCHANGED resetTimeMs
              ELSE /\ hourly' = [hourly EXCEPT ![i].pc = "done",
                                               ![i].usage = <<>>,
                                               ![i].report = report,
                                               ![i].outcome = "notDelivered",
                                               ![i].nReset = @ + 1]
                   /\ resetTimeMs' = now
  /\ UNCHANGED <<now, traffic, serverConfig, configFile, daily, snapshot, filtered, post>>

\* A delivery after which the tick writes the end of its own window to the
\* cursor: the write of the cursor on the far side of the await.
DeliveryResolvedWritesCursor(i) ==
  /\ hourly[i].pc = "awaitDelivery"
  /\ hourly' = [hourly EXCEPT ![i].pc = "done", ![i].outcome = "delivered",
                              ![i].nReset = @ + 1]
  /\ resetTimeMs' = now
  /\ reportStartTimestampMs' = hourly[i].report.endUtcMs
  /\ UNCHANGED <<now, traffic, serverConfig, configFile,
                 daily, builtOrder, snapshot, filtered, post>>

\* collectServerUsageMetrics resolves (a 2xx answer): reset() follows.
DeliveryResolved(i) ==
  /\ hourly[i].pc = "awaitDelivery"
  /\ hourly' = [hourly EXCEPT ![i].pc = "done", ![i].outcome = "delivered",
                              ![i].nReset = @ + 1]
  /\ resetTimeMs' = now
  /\ UNCHANGED <<now, traffic, serverConfig, configFile, reportStartTimestampMs,
                 daily, builtOrder, snapshot, filtered, post>>

\* A rejected delivery that puts the cursor back to the start of the window.
DeliveryRejectedRollback(i) ==
  /\ hourly[i].pc = "awaitDelivery"
  /\ hourly' = [hourly EXCEPT ![i].pc = "done", ![i].outcome = "deliveryRejected"]
  /\ reportStartTimestampMs' = hourly[i].report.startUtcMs
  /\ UNCHANGED <<now, traffic, serverConfig, configFile, resetTimeMs,
                 daily, builtOrder, snapshot, filtered, post>>

\* collectServerUsageMetrics rejects (another status, or a network error):
\* the catch logs it, reset() is skipped.
DeliveryRejected(i) ==
  /\ hourly[i].pc = "awaitDelivery"
  /\ hourly' = [hourly EXCEPT ![i].pc = "done", ![i].outcome = "deliveryRejected"]
  /\ UNCHANGED <<now, traffic, serverConfig, configFile, resetTimeMs,
                 reportStartTimestampMs, daily, builtOrder, snapshot, filtered, post>>

-----------------------------------------------------------------------------
(* The daily callback *)

\* The feature report that never says a data limit is set.
FeatureMetricsReportNoLimit ==
  [timestampUtcMs |-> now, dataLimitEnabled |-> FALSE]

FeatureMetricsReport ==
  [timestampUtcMs |-> now, dataLimitEnabled |-> serverConfig.accessKeyDataLimit]

\* The daily callback without its opt-in check.
DailyTickUngated(j) ==
  /\ daily[j].pc = "idle"
  /\ SetInterval(daily, j)
  /\ daily' = [daily EXCEPT ![j].pc = "awaitDelivery",
                            ![j].report = FeatureMetricsReport,
                            ![j].nCollect = @ + 1]
  /\ UNCHANGED <<now, traffic, serverConfig, configFile, resetTimeMs,
                 reportStartTimestampMs, hourly, builtOrder, snapshot, filtered, post>>

DailyTick(j) ==
  /\ daily[j].pc = "idle"
  /\ SetInterval(daily, j)
  /\ IF ~IsSharingEnabled
       THEN daily' = [daily EXCEPT ![j].pc = "done", ![j].outcome = "disabled"]
       ELSE daily' = [daily EXCEPT ![j].pc = "awaitDelivery",
                                   ![j].report = FeatureMetricsReport,
                                   ![j].nCollect = @ + 1]
  /\ UNCHANGED <<now, traffic, serverConfig, configFile, resetTimeMs,
                 reportStartTimestampMs, hourly, builtOrder, snapshot, filtered, post>>

\* A daily delivery that also moves the usage baseline.
FeatureDeliveryResolvedAndReset(j) ==
  /\ daily[j].pc = "awaitDelivery"
  /\ daily' = [daily EXCEPT ![j].pc = "done", ![j].outcome = "delivered",
                            ![j].report = NoFeatureReport]
  /\ resetTimeMs' = now
  /\ UNCHANGED <<now, traffic, serverConfig, configFile,
                 reportStartTimestampMs, hourly, builtOrder, snapshot, filtered, post>>

FeatureDeliveryResolved(j) ==
  /\ daily[j].pc = "awaitDelivery"
  /\ daily' = [daily EXCEPT ![j].pc = "done", ![j].outcome = "delivered",
                            ![j].report = NoFeatureReport]
  /\ UNCHANGED <<now, traffic, serverConfig, configFile, resetTimeMs,
                 reportStartTimestampMs, hourly, builtOrder, snapshot, filtered, post>>

FeatureDeliveryRejected(j) ==
  /\ daily[j].pc = "awaitDelivery"
  /\ daily' = [daily EXCEPT ![j].pc = "done", ![j].outcome = "deliveryRejected",
                            ![j].report = NoFeatureReport]
  /\ UNCHANGED <<now, traffic, serverConfig, configFile, resetTimeMs,
                 reportStartTimestampMs, hourly, builtOrder, snapshot, filtered, post>>

-----------------------------------------------------------------------------
(* The report construction of reportServerUsageMetrics on its own: the      *)
(* publisher takes any UsageMetrics, so the snapshot is any KeyUsage[].     *)

CountryLists ==
  { <<>>, <<"US">>, <<"KP">>, <<"US", "KP">>, <<"KP", "US">>, <<"CU", "SY">> }

KeyUsages ==
  [accessKeyId : {"a", "c"}, countries : CountryLists, inboundBytes : {0, 1000}]

Snapshots ==
  UNION { [1..n -> KeyUsages] : n \in 0..MaxSnapshotLen }

InitFilter ==
  /\ InitPublisher
  /\ snapshot \in Snapshots
  /\ filtered = NotBuilt
  /\ post = NoPost

\* The loop of reportServerUsageMetrics over the snapshot.
ReportFromSnapshot ==
  /\ ~filtered.built
  /\ filtered' = [built |-> TRUE, userReports |-> BuildUserReports(snapshot)]
  /\ UNCHANGED <<now, traffic, serverConfig, configFile, resetTimeMs,
                 reportStartTimestampMs, hourly, daily, builtOrder, snapshot, post>>

NextFilter == ReportFromSnapshot

SpecFilter == InitFilter /\ [][NextFilter]_vars

-----------------------------------------------------------------------------
(* RestMetricsCollectorClient.postMetrics on its own: one call, then the    *)
(* events of its request.  A request gets at most one response, and none    *)
(* after it failed; an error may still follow a response.                   *)

UrlProtocols == {"http:", "https:"}

StatusCodes == {199, 200, 204, 299, 300, 404, 503}

\* The module that sends the request: url.protocol keeps its colon.
RequestModule(protocol) == IF protocol = "http" THEN "http" ELSE "https"

\* A status test that takes 300 for a success.
IsSuccessStatusUpTo300(statusCode) == statusCode >= 200 /\ statusCode <= 300

IsSuccessStatus(statusCode) == statusCode >= 200 /\ statusCode < 300

\* resolve() and reject() of a promise: the first one decides.
Settle(promise, outcome) == IF promise = "pending" THEN outcome ELSE promise

InitTransport ==
  /\ InitPublisher
  /\ snapshot = <<>>
  /\ filtered = NotBuilt
  /\ post = NoPost

\* The request postMetrics sends and the promise it returns.
PostMetrics(urlPath, protocol) ==
  [post EXCEPT !.urlPath = urlPath,
               !.requestModule = RequestModule(protocol),
               !.requests = @ + 1,
               !.promise = "pending"]

CollectServerUsageMetrics ==
  /\ post.promise = "none"
  /\ \E protocol \in UrlProtocols : post' = PostMetrics("/connections", protocol)
  /\ UNCHANGED <<now, traffic, serverConfig, configFile, resetTimeMs,
                 reportStartTimestampMs, hourly, daily, builtOrder, snapshot, filtered>>

CollectFeatureMetrics ==
  /\ post.promise = "none"
  /\ \E protocol \in UrlProtocols : post' = PostMetrics("/features", protocol)
  /\ UNCHANGED <<now, traffic, serverConfig, configFile, resetTimeMs,
                 reportStartTimestampMs, hourly, daily, builtOrder, snapshot, filtered>>

\* The callback given to requestModule.request.
OnResponse(statusCode) ==
  /\ post.promise # "none"
  /\ ~post.responded /\ ~post.errored
  /\ post' = [post EXCEPT !.responded = TRUE,
                          !.statusCode = statusCode,
                          !.promise = Settle(@, IF IsSuccessStatus(statusCode)
                                                  THEN "resolved" ELSE "rejected")]
  /\ UNCHANGED <<now, traffic, serverConfig, configFile, resetTimeMs,
                 reportStartTimestampMs, hourly, daily, builtOrder, snapshot, filtered>>

\* req.on('error', ...).
OnError ==
  /\ post.promise # "none"
  /\ ~post.errored
  /\ post' = [post EXCEPT !.errored = TRUE, !.promise = Settle(@, "rejected")]
  /\ UNCHANGED <<now, traffic, serverConfig, configFile, resetTimeMs,
                 reportStartTimestampMs, hourly, daily, builtOrder, snapshot, filtered>>

NextTransport ==
  \/ CollectServerUsageMetrics
  \/ CollectFeatureMetrics
  \/ \E statusCode \in StatusCodes : OnResponse(statusCode)
  \/ OnError

SpecTransport == InitTransport /\ [][NextTransport]_vars

-----------------------------------------------------------------------------

Next ==
  \/ AdvanceClock
  \/ SetAccessKeyDataLimit
  \/ StartSharing
  \/ StopSharing
  \/ \E i \in 1..MaxHourlyTicks : HourlyTick(i)
  \/ \E i \in 1..MaxHourlyTicks : GetUsageRejected(i)
  \/ \E i \in 1..MaxHourlyTicks : GetUsageResolved(i)
  \/ \E i \in 1..MaxHourlyTicks : DeliveryResolved(i)
  \/ \E i \in 1..MaxHourlyTicks : DeliveryRejected(i)
  \/ \E j \in 1..MaxDailyTicks : DailyTick(j)
  \/ \E j \in 1..MaxDailyTicks : FeatureDeliveryResolved(j)
  \/ \E j \in 1..MaxDailyTicks : FeatureDeliveryRejected(j)

Spec == Init /\ [][Next]_vars

-----------------------------------------------------------------------------
(* What the properties below read off the state *)

HourlyTicks == 1..MaxHourlyTicks
DailyTicks == 1..MaxDailyTicks

\* The k-th hourly report that was built, and the tick that built it.
BuiltTick(k) == builtOrder[k]
BuiltReport(k) == hourly[builtOrder[k]].report
NumBuilt == Len(builtOrder)

Sanctioned(country) == country \in {"CU", "KP", "SY"}

-----------------------------------------------------------------------------
(* C1: opt-out gating *)

\* C1 as stated: once stopSharing() has returned and until startSharing() is
\* called, no step makes a collectServerUsageMetrics or collectFeatureMetrics
\* call, ticks suspended at getUsage() included.
C1_NoCallWhileStopped ==
  [][serverConfig.metricsEnabled = "false" =>
       /\ \A i \in HourlyTicks : hourly'[i].nCollect = hourly[i].nCollect
       /\ \A j \in DailyTicks : daily'[j].nCollect = daily[j].nCollect]_vars

\* C1 as amended: once stopSharing() has returned and until startSharing() is
\* called, a callback of either timer that fires returns at its opt-in check
\* (no getUsage, no delivery call), and no collectFeatureMetrics call is made;
\* the only delivery call still made is the collectServerUsageMetrics of an
\* hourly tick that passed the check before and was awaiting getUsage().
C1_GatingOfTicksThatFire ==
  [][serverConfig.metricsEnabled = "false" =>
       /\ \A j \in DailyTicks : daily'[j].nCollect = daily[j].nCollect
       /\ \A j \in DailyTicks :
            daily[j].pc = "idle" => daily'[j].pc \in {"idle", "done"}
       /\ \A i \in HourlyTicks :
            hourly'[i].nCollect # hourly[i].nCollect => hourly[i].pc = "awaitUsage"
       /\ \A i \in HourlyTicks :
            hourly[i].pc = "idle" =>
              /\ hourly'[i].pc \in {"idle", "done"}
              /\ hourly'[i].nGetUsage = 0
              /\ hourly'[i].nCollect = 0]_vars

\* Sharing was on and a report was delivered, then stopSharing(): usage went
\* on accruing and a tick of each timer fired and made no call.
C1_Witness ==
  /\ serverConfig.metricsEnabled = "false"
  /\ hourly[1].outcome = "delivered"
  /\ hourly[2].outcome = "disabled" /\ hourly[2].nGetUsage = 0 /\ hourly[2].nCollect = 0
  /\ daily[1].outcome = "disabled" /\ daily[1].nCollect = 0
  /\ now = 2 /\ traffic[2] = "a"

-----------------------------------------------------------------------------
(* C2: sanctioned-country policy, on the report construction alone *)

\* The entry has a report of its own in the output.
Appears(keyUsage) ==
  \E m \in 1..Len(filtered.userReports) :
    /\ filtered.userReports[m].bytesTransferred = keyUsage.inboundBytes
    /\ filtered.userReports[m].countries = keyUsage.countries

\* C2 as stated: an entry with bytes > 0 and at least one country outside the
\* sanctioned set is in the report, also when it lists a sanctioned country too.
C2_MixedEntryReported ==
  filtered.built =>
    \A k \in 1..Len(snapshot) :
      ( /\ snapshot[k].inboundBytes > 0
        /\ \E c \in 1..Len(snapshot[k].countries) : ~Sanctioned(snapshot[k].countries[c]) )
      => Appears(snapshot[k])

\* C2 as amended: an entry is suppressed for country reasons exactly when at
\* least one of its countries is sanctioned: an entry with bytes > 0 is in the
\* report if and only if none of its countries is in {CU, KP, SY}.
C2_AnySanctionedSuppresses ==
  filtered.built =>
    \A k \in 1..Len(snapshot) :
      snapshot[k].inboundBytes > 0 =>
        ( Appears(snapshot[k]) <=>
            \A c \in 1..Len(snapshot[k].countries) : ~Sanctioned(snapshot[k].countries[c]) )

\* A snapshot with a mixed entry and a clean one went through the filter:
\* only the clean one came out.
C2_Witness ==
  /\ filtered.built
  /\ Len(snapshot) = 2
  /\ snapshot[1].countries = <<"US", "KP">> /\ snapshot[1].inboundBytes = 1000
  /\ snapshot[2].countries = <<"US">> /\ snapshot[2].inboundBytes = 1000
  /\ Len(filtered.userReports) = 1
  /\ filtered.userReports[1].countries = <<"US">>

-----------------------------------------------------------------------------
(* C3: no zero-byte entry, no all-sanctioned entry in a built report *)

\* C3: in every hourly report built (delivered or not), no entry has zero
\* bytes and no entry has a non-empty country list of sanctioned countries only.
C3_ReportEntries ==
  \A k \in 1..NumBuilt :
    \A m \in 1..Len(BuiltReport(k).userReports) :
      LET entry == BuiltReport(k).userReports[m]
      IN  /\ entry.bytesTransferred # 0
          /\ ~( /\ Len(entry.countries) > 0
                /\ \A c \in 1..Len(entry.countries) : Sanctioned(entry.countries[c]) )

\* Two reports were built: the first from a snapshot where the sanctioned
\* series had a byte and the other series none (nothing was left to deliver),
\* the second, delivered, from a snapshot where it was the other way round.
C3_Witness ==
  /\ NumBuilt = 2
  /\ traffic = <<"b", "a">>
  /\ BuiltReport(1).endUtcMs = 1 /\ BuiltReport(1).userReports = <<>>
  /\ BuiltReport(2).endUtcMs = 2 /\ Len(BuiltReport(2).userReports) = 1
  /\ hourly[BuiltTick(2)].outcome = "delivered"

-----------------------------------------------------------------------------
(* C4: reset() after every successful getUsage() *)

\* C4: an enabled hourly tick whose getUsage() succeeded has called reset()
\* exactly once when it is over, whether its delivery succeeded, was rejected
\* or was skipped.
C4_ResetOncePerFetch ==
  \A i \in HourlyTicks :
    ( /\ hourly[i].pc = "done"
      /\ hourly[i].outcome \in {"delivered", "deliveryRejected", "notDelivered"} )
    => hourly[i].nReset = 1

-----------------------------------------------------------------------------
(* C5: the cursor advances although the delivery is rejected *)

\* C5: no error leaves a callback; and a report whose delivery was rejected
\* has left reportStartTimestampMs at its endUtcMs: the report built next
\* starts there, and while none is built the cursor stays there.
C5_CursorAdvancedOnRejection ==
  /\ \A i \in HourlyTicks : hourly[i].outcome # "unhandled"
  /\ \A k \in 1..NumBuilt :
       hourly[BuiltTick(k)].outcome = "deliveryRejected" =>
         /\ hourly[BuiltTick(k)].pc = "done"
         /\ IF k < NumBuilt
              THEN BuiltReport(k + 1).startUtcMs = BuiltReport(k).endUtcMs
              ELSE reportStartTimestampMs = BuiltReport(k).endUtcMs

\* A report for [0, 1) was rejected, and the next one was built a clock unit
\* later, for [1, 2).
C5_Witness ==
  /\ NumBuilt >= 2
  /\ hourly[BuiltTick(1)].outcome = "deliveryRejected"
  /\ BuiltReport(1).startUtcMs = 0 /\ BuiltReport(1).endUtcMs = 1
  /\ BuiltReport(2).startUtcMs = 1 /\ BuiltReport(2).endUtcMs = 2

-----------------------------------------------------------------------------
(* C6: window contiguity of delivered reports *)

Delivered(k) == hourly[BuiltTick(k)].outcome = "delivered"

\* Reports k < l are two consecutive delivered ones.
ConsecutiveDelivered(k, l) ==
  /\ k < l
  /\ Delivered(k) /\ Delivered(l)
  /\ \A m \in (k + 1)..(l - 1) : ~Delivered(m)

\* No hourly tick has fired while an earlier one was suspended.
NoOverlap == \A i \in HourlyTicks : ~hourly[i].overlapped

\* C6 as stated, for the executions whose hourly ticks ran one after the
\* other: of two consecutive delivered reports the second starts where the
\* first ends, whatever cycles lie between the two.
C6_DeliveredContiguous ==
  NoOverlap =>
    \A k, l \in 1..NumBuilt :
      ConsecutiveDelivered(k, l) => BuiltReport(l).startUtcMs = BuiltReport(k).endUtcMs

\* C6 as amended: of two consecutive delivered reports the second starts where
\* the report built immediately before it ends: at the end of the first when no
\* report was built between the two (disabled ticks and ticks whose getUsage()
\* was rejected build none), and else at the end of the last empty or rejected
\* report between them.
C6_DeliveredStartsAtPreviousEnd ==
  \A k, l \in 1..NumBuilt :
    ConsecutiveDelivered(k, l) =>
      /\ BuiltReport(l).startUtcMs = BuiltReport(l - 1).endUtcMs
      /\ BuiltReport(l).startUtcMs >= BuiltReport(k).endUtcMs

\* Tick 1 delivered [0, 1), tick 2 built nothing, tick 3 delivered [1, 2).
C6_Witness ==
  /\ builtOrder = <<1, 3>>
  /\ hourly[2].outcome \in {"disabled", "usageRejected"}
  /\ Delivered(1) /\ Delivered(2)
  /\ BuiltReport(1).endUtcMs = 1
  /\ BuiltReport(2).startUtcMs = 1 /\ BuiltReport(2).endUtcMs = 2

-----------------------------------------------------------------------------
(* C7: the bytes of a report are the traffic of its window *)

RECURSIVE BytesOf(_, _)
BytesOf(userReports, userId) ==
  IF userReports = <<>> THEN 0
  ELSE (IF Head(userReports).userId = userId THEN Head(userReports).bytesTransferred ELSE 0)
       + BytesOf(Tail(userReports), userId)

\* C7: every built report carries, for the series that is not sanctioned,
\* exactly the bytes that series moved in [startUtcMs, endUtcMs).
C7_BytesMatchWindow ==
  \A k \in 1..NumBuilt :
    BytesOf(BuiltReport(k).userReports, "m-a")
      = Increase("a", BuiltReport(k).startUtcMs, BuiltReport(k).endUtcMs)

-----------------------------------------------------------------------------
(* C8: well-formed windows *)

\* C8: the clock never going backwards, every built report has
\* startUtcMs <= endUtcMs, and no step decreases reportStartTimestampMs.
C8_WindowWellFormed ==
  /\ [](\A k \in 1..NumBuilt : BuiltReport(k).startUtcMs <= BuiltReport(k).endUtcMs)
  /\ [][reportStartTimestampMs' >= reportStartTimestampMs]_vars

\* Two reports were built at different times: [0, 1) and [1, 2).
C8_Witness ==
  /\ NumBuilt >= 2
  /\ BuiltReport(1).startUtcMs = 0 /\ BuiltReport(1).endUtcMs = 1
  /\ BuiltReport(2).startUtcMs = 1 /\ BuiltReport(2).endUtcMs = 2
  /\ reportStartTimestampMs = 2

-----------------------------------------------------------------------------
(* C9: an empty report is not delivered, the cursor advances all the same *)

\* C9: a tick whose report has no entry makes no collectServerUsageMetrics
\* call, every report handed to the collector has entries, and the empty
\* report has moved the cursor to its endUtcMs like any other.
C9_NoEmptyDelivery ==
  /\ \A i \in HourlyTicks :
       hourly[i].nCollect > 0 => hourly[i].report.userReports # <<>>
  /\ \A k \in 1..NumBuilt :
       BuiltReport(k).userReports = <<>> =>
         /\ hourly[BuiltTick(k)].nCollect = 0
         /\ hourly[BuiltTick(k)].pc = "done"
         /\ IF k < NumBuilt
              THEN BuiltReport(k + 1).startUtcMs = BuiltReport(k).endUtcMs
              ELSE reportStartTimestampMs = BuiltReport(k).endUtcMs

\* Only the sanctioned series had traffic: the report built at 1 was empty
\* and not delivered, and the cursor is at 1.
C9_Witness ==
  /\ NumBuilt = 1
  /\ traffic = <<"b">>
  /\ BuiltReport(1).userReports = <<>> /\ BuiltReport(1).endUtcMs = 1
  /\ hourly[BuiltTick(1)].nCollect = 0
  /\ reportStartTimestampMs = 1

-----------------------------------------------------------------------------
(* C10: failure containment *)

-----------------------------------------------------------------------------
(* C11: the daily feature report *)

\* C11: a daily tick that finds sharing enabled makes one collectFeatureMetrics
\* call, with dataLimit.enabled true exactly when accessKeyDataLimit is in the
\* configuration at that tick; one that finds it disabled makes none; and a
\* tick that has fired makes no further call.
C11_DailyFeatureReport ==
  [][\A j \in DailyTicks :
       /\ (daily[j].pc = "idle" /\ daily'[j].pc # "idle") =>
            IF serverConfig.metricsEnabled = "true"
              THEN /\ daily'[j].nCollect = 1
                   /\ daily'[j].pc = "awaitDelivery"
                   /\ daily'[j].report.dataLimitEnabled = serverConfig.accessKeyDataLimit
              ELSE /\ daily'[j].nCollect = 0
                   /\ daily'[j].pc = "done"
       /\ daily[j].pc # "idle" => daily'[j].nCollect = daily[j].nCollect]_vars

\* A daily tick fired with a data limit configured: its report says so, also
\* after the limit was removed while the delivery is awaited.
C11_Witness ==
  /\ daily[1].pc = "awaitDelivery"
  /\ daily[1].nCollect = 1
  /\ daily[1].report.dataLimitEnabled
  /\ ~serverConfig.accessKeyDataLimit

-----------------------------------------------------------------------------
(* C12: the outcome of a collector call *)

\* C12: a collector call makes one request; its promise is resolved exactly
\* when a response with a status in [200, 300) came, is rejected when a
\* response with another status came or the request failed without a response,
\* is pending while neither came, and once settled stays as it is.
C12_TransportOutcome ==
  /\ [](post.promise # "none" =>
          /\ post.requests = 1
          /\ post.promise = "resolved" <=>
               (post.responded /\ post.statusCode >= 200 /\ post.statusCode < 300)
          /\ post.promise = "rejected" <=>
               \/ post.responded /\ ~(post.statusCode >= 200 /\ post.statusCode < 300)
               \/ post.errored /\ ~post.responded
          /\ post.promise = "pending" <=> (~post.responded /\ ~post.errored))
  /\ [][post.promise \in {"resolved", "rejected"} => post'.promise = post.promise]_vars

\* The answer had status 300, the first one past the successes: rejected.
C12_Witness ==
  /\ post.urlPath = "/connections"
  /\ post.responded /\ post.statusCode = 300
  /\ post.promise = "rejected"

-----------------------------------------------------------------------------
(* C13: the opt-in flag *)

\* C13: startSharing / stopSharing leave metricsEnabled true / false, in the
\* configuration and in its file; isSharingEnabled() is true exactly when the
\* flag is true, so false while it was never set; no other step, and no timer
\* tick, changes the flag; and a tick that starts is gated by the flag as it
\* is at that moment.
C13_OptInFlag ==
  /\ [](/\ configFile.metricsEnabled = serverConfig.metricsEnabled
        /\ IsSharingEnabled <=> serverConfig.metricsEnabled = "true"
        /\ serverConfig.metricsEnabled = "undefined" => ~IsSharingEnabled)
  /\ [][/\ StartSharing => (IsSharingEnabled' /\ configFile'.metricsEnabled = "true")
        /\ StopSharing => (~IsSharingEnabled' /\ configFile'.metricsEnabled = "false")
        /\ ~(StartSharing \/ StopSharing) =>
             serverConfig'.metricsEnabled = serverConfig.metricsEnabled
        /\ (hourly' # hourly \/ daily' # daily) =>
             serverConfig'.metricsEnabled = serverConfig.metricsEnabled
        /\ \A i \in HourlyTicks :
             (hourly[i].pc = "idle" /\ hourly'[i].pc # "idle") =>
               (hourly'[i].outcome = "disabled" <=> serverConfig.metricsEnabled # "true")
        /\ \A j \in DailyTicks :
             (daily[j].pc = "idle" /\ daily'[j].pc # "idle") =>
               (daily'[j].outcome = "disabled" <=> serverConfig.metricsEnabled # "true")]_vars

\* Sharing was off at the first hourly tick, was started, and the second tick
\* ran; it was stopped again while that tick was still waiting.
C13_Witness ==
  /\ hourly[1].outcome = "disabled"
  /\ hourly[2].pc = "awaitUsage"
  /\ serverConfig.metricsEnabled = "false"
  /\ configFile.metricsEnabled = "false"

-----------------------------------------------------------------------------
(* C14: ticks of one timer *)

\* The daily ticks suspended at their await.
DailyInFlight == {m \in DailyTicks : daily[m].pc = "awaitDelivery"}

-----------------------------------------------------------------------------
(* C15: the two timers touch disjoint state *)

\* C15: a step of a daily tick leaves the window cursor, the usage baseline
\* and every hourly tick (its getUsage, reset and collectServerUsageMetrics
\* calls and the reports built) as they are; a step of an hourly tick leaves
\* every daily tick, and so the collectFeatureMetrics calls, as they are.  A
\* daily step changes nothing an hourly tick reads, so the hourly reports do
\* not depend on the daily ticks between them.
C15_TimersDisjoint ==
  [][/\ daily' # daily =>
          /\ reportStartTimestampMs' = reportStartTimestampMs
          /\ resetTimeMs' = resetTimeMs
          /\ hourly' = hourly
          /\ builtOrder' = builtOrder
          /\ UNCHANGED <<now, traffic, serverConfig>>
     /\ hourly' # hourly => daily' = daily]_vars

\* The daily tick fired after the first hourly report was built and while its
\* delivery was pending; the cursor is still that report's end.
C15_Witness ==
  /\ hourly[1].pc = "awaitDelivery"
  /\ daily[1].pc = "awaitDelivery"
  /\ daily[1].report.timestampUtcMs > hourly[1].report.endUtcMs
  /\ reportStartTimestampMs = hourly[1].report.endUtcMs
  /\ resetTimeMs < hourly[1].report.endUtcMs

-----------------------------------------------------------------------------
(* C16: an hourly tick that finds sharing disabled *)

\* C16: an hourly tick that finds sharing disabled calls neither getUsage()
\* nor reset() nor the collector, builds no report and leaves the cursor and
\* the usage baseline as they are; so a report built by the tick after a
\* disabled one starts where the report built before it ended, or at the
\* initial cursor when it is the first.
C16_DisabledTickNoOp ==
  /\ [](/\ \A i \in HourlyTicks :
             hourly[i].outcome = "disabled" =>
               /\ hourly[i].nGetUsage = 0 /\ hourly[i].nReset = 0 /\ hourly[i].nCollect = 0
               /\ hourly[i].report = NoReport
               /\ \A k \in 1..NumBuilt : BuiltTick(k) # i
        /\ \A k \in 1..NumBuilt :
             (BuiltTick(k) > 1 /\ hourly[BuiltTick(k) - 1].outcome = "disabled") =>
               BuiltReport(k).startUtcMs =
                 IF k = 1 THEN 0 ELSE BuiltReport(k - 1).endUtcMs)
  /\ [][\A i \in HourlyTicks :
          (hourly[i].pc = "idle" /\ hourly'[i].outcome = "disabled") =>
            /\ reportStartTimestampMs' = reportStartTimestampMs
            /\ resetTimeMs' = resetTimeMs
            /\ builtOrder' = builtOrder]_vars

\* Tick 1 built [0, 1), tick 2 found sharing disabled at a later time, and
\* tick 3 built [1, 2).
C16_Witness ==
  /\ builtOrder = <<1, 3>>
  /\ hourly[2].outcome = "disabled"
  /\ BuiltReport(1).startUtcMs = 0 /\ BuiltReport(1).endUtcMs = 1
  /\ BuiltReport(2).startUtcMs = 1 /\ BuiltReport(2).endUtcMs = 2
  /\ hourly[3].pc = "awaitDelivery"

-----------------------------------------------------------------------------
(* C17: the entries of a built report *)

\* The entry moved bytes and none of its countries is sanctioned.
Survives(keyUsage) ==
  /\ keyUsage.inboundBytes # 0
  /\ \A k \in 1..Len(keyUsage.countries) : ~Sanctioned(keyUsage.countries[k])

\* C17: the userReports built from a snapshot are its surviving entries, in
\* snapshot order and one for one: the entry's bytes, its country list, and as
\* userId the metrics id of its access key, or "" when the key has none.
C17_ReportConstruction ==
  filtered.built =>
    LET survivors == SelectSeq(snapshot, Survives)
    IN  /\ Len(filtered.userReports) = Len(survivors)
        /\ \A k \in 1..Len(survivors) :
             /\ filtered.userReports[k].bytesTransferred = survivors[k].inboundBytes
             /\ filtered.userReports[k].countries = survivors[k].countries
             /\ filtered.userReports[k].userId =
                  IF ToMetricsId(survivors[k].accessKeyId) = "undefined"
                    THEN "" ELSE ToMetricsId(survivors[k].accessKeyId)

\* Two surviving entries, the first of a key without a metrics id.
C17_Witness ==
  /\ filtered.built
  /\ Len(snapshot) = 2
  /\ snapshot[1].accessKeyId = "c" /\ snapshot[1].countries = <<"US">>
  /\ snapshot[2].accessKeyId = "a" /\ snapshot[2].countries = <<>>
  /\ Len(filtered.userReports) = 2
  /\ filtered.userReports[1].userId = ""
  /\ filtered.userReports[2].userId # ""

-----------------------------------------------------------------------------
(* C18: a rejected getUsage() *)

\* C18: the step in which getUsage() is rejected builds no report, makes no
\* delivery call and no reset() call, and leaves the cursor and the usage
\* baseline as they are; the tick ends with one getUsage() call and nothing
\* else, and a report built by the tick after it starts where the report
\* built before it ended, or at the initial cursor when it is the first.
C18_QueryFailureAborts ==
  /\ [](/\ \A i \in HourlyTicks :
             hourly[i].outcome = "usageRejected" =>
               /\ hourly[i].pc = "done"
               /\ hourly[i].nGetUsage = 1
               /\ hourly[i].nReset = 0 /\ hourly[i].nCollect = 0
               /\ hourly[i].report = NoReport
               /\ \A k \in 1..NumBuilt : BuiltTick(k) # i
        /\ \A k \in 1..NumBuilt :
             (BuiltTick(k) > 1 /\ hourly[BuiltTick(k) - 1].outcome = "usageRejected") =>
               BuiltReport(k).startUtcMs =
                 IF k = 1 THEN 0 ELSE BuiltReport(k - 1).endUtcMs)
  /\ [][\A i \in HourlyTicks :
          (hourly[i].pc = "awaitUsage" /\ hourly'[i].outcome = "usageRejected") =>
            /\ reportStartTimestampMs' = reportStartTimestampMs
            /\ resetTimeMs' = resetTimeMs
            /\ builtOrder' = builtOrder]_vars

\* The first tick's getUsage() was rejected at a later time than it was
\* called; the second tick built the first report, which starts at 0.
C18_Witness ==
  /\ hourly[1].outcome = "usageRejected"
  /\ builtOrder = <<2>>
  /\ BuiltReport(1).startUtcMs = 0 /\ BuiltReport(1).endUtcMs = 2
  /\ hourly[2].pc = "awaitDelivery"
  /\ ~hourly[2].overlapped

-----------------------------------------------------------------------------
(* C19: an entry without countries *)

\* C19: every snapshot entry with bytes > 0 and an empty country list has an
\* entry of its own in the built report, with its bytes, its user id and an
\* empty country list: the report has as many entries without countries as
\* the snapshot has entries with bytes > 0 and no country.
C19_EmptyCountryListReported ==
  filtered.built =>
    /\ \A k \in 1..Len(snapshot) :
         (snapshot[k].inboundBytes > 0 /\ snapshot[k].countries = <<>>) =>
           \E m \in 1..Len(filtered.userReports) :
             /\ filtered.userReports[m].countries = <<>>
             /\ filtered.userReports[m].bytesTransferred = snapshot[k].inboundBytes
             /\ filtered.userReports[m].userId = UserId(snapshot[k].accessKeyId)
    /\ Cardinality({m \in 1..Len(filtered.userReports) :
                      filtered.userReports[m].countries = <<>>})
         = Cardinality({k \in 1..Len(snapshot) :
                          snapshot[k].inboundBytes > 0 /\ snapshot[k].countries = <<>>})

\* An entry without countries after a suppressed one: it is the only entry of
\* the report.
C19_Witness ==
  /\ filtered.built
  /\ Len(snapshot) = 2
  /\ snapshot[1].countries = <<"KP">> /\ snapshot[1].inboundBytes = 1000
  /\ snapshot[2].countries = <<>> /\ snapshot[2].inboundBytes = 1000
  /\ Len(filtered.userReports) = 1
  /\ filtered.userReports[1].countries = <<>>

-----------------------------------------------------------------------------
(* C20: the cursor is read and written in one step *)

\* C20: each built report starts where the report built immediately before
\* it ended, the first at the construction time; the windows of two built
\* reports do not overlap; no tick builds two reports or makes two delivery
\* calls; and the cursor is the end of the last report built.  This holds
\* also when hourly ticks overlap.
C20_AtomicCursor ==
  /\ \A k \in 1..NumBuilt :
       /\ BuiltReport(k).startUtcMs = IF k = 1 THEN 0 ELSE BuiltReport(k - 1).endUtcMs
       /\ BuiltReport(k).startUtcMs <= BuiltReport(k).endUtcMs
       /\ hourly[BuiltTick(k)].nCollect <= 1
  /\ \A k, l \in 1..NumBuilt :
       k < l => /\ BuiltReport(k).endUtcMs <= BuiltReport(l).startUtcMs
                /\ BuiltTick(k) # BuiltTick(l)
  /\ reportStartTimestampMs = IF NumBuilt = 0 THEN 0 ELSE BuiltReport(NumBuilt).endUtcMs

\* Tick 2 fired while tick 1 awaited getUsage() and built its report first:
\* [0, 1) by tick 2, then [1, 2) by tick 1, both awaiting their delivery.
C20_Witness ==
  /\ hourly[2].overlapped
  /\ builtOrder = <<2, 1>>
  /\ hourly[2].report.startUtcMs = 0 /\ hourly[2].report.endUtcMs = 1
  /\ hourly[1].report.startUtcMs = 1 /\ hourly[1].report.endUtcMs = 2
  /\ hourly[1].pc = "awaitDelivery" /\ hourly[2].pc = "awaitDelivery"

====
